---- MODULE Spec2Model ----
(***************************************************************************)
(* Model of the Settings store of conf/__init__.py: the macro resolver     *)
(* (_eval_param / getValue), the attribute store (__setattr__, setValue,   *)
(* load_from_dict, load_from_env, restore_from_dict) and merge_spec.       *)
(*                                                                         *)
(* Representation.                                                         *)
(*  - A Python string used as a NAME (setting name, dict key) is a         *)
(*    sequence of one-character strings, so that str.upper, str.isupper    *)
(*    and the regex character classes are computed character by character. *)
(*  - A Python string used as a VALUE is a sequence of tokens: a literal   *)
(*    character, or one occurrence of the text #PARAM(<base><accessors>).  *)
(*    Stored literal text never contains the character '#'.                *)
(*  - A dict is a sequence of key/value pairs in insertion order.          *)
(*  - Values are immutable here; the in-place mutation of merge_spec is    *)
(*    modelled by writing the mutated object back where it lives.          *)
(*    Aliasing between the store and a caller's dictionary is not          *)
(*    modelled: every input is a fresh object.                             *)
(***************************************************************************)
EXTENDS Integers, Sequences, FiniteSets, TLC

VARIABLES store, last

vars == <<store, last>>

(***************************************************************************)
(* Bounds of the model.                                                    *)
(***************************************************************************)
\* integer leaves range over 1..MaxInt
MaxInt == 1
\* index accessors of placeholders range over 0..MaxIdx
MaxIdx == 1

(***************************************************************************)
(* Characters and names.                                                   *)
(***************************************************************************)
LowerAlpha == <<"a","b","c","d","e","f","g","h","i","j","k","l","m",
                "n","o","p","q","r","s","t","u","v","w","x","y","z">>

UpperAlpha == <<"A","B","C","D","E","F","G","H","I","J","K","L","M",
                "N","O","P","Q","R","S","T","U","V","W","X","Y","Z">>

DigitChars == <<"0","1","2","3","4","5","6","7","8","9">>

Range(s) == {s[i] : i \in DOMAIN s}

IsLowerChar(c) == c \in Range(LowerAlpha)

IsUpperChar(c) == c \in Range(UpperAlpha)

\* \w of the regular expression: letters, digits and the underscore
IsWordChar(c) == IsLowerChar(c) \/ IsUpperChar(c) \/ c \in Range(DigitChars) \/ c = "_"

UpperChar(c) ==
    IF IsLowerChar(c)
    THEN UpperAlpha[CHOOSE i \in DOMAIN LowerAlpha : LowerAlpha[i] = c]
    ELSE c

\* str.upper()
Upper(name) == [i \in DOMAIN name |-> UpperChar(name[i])]

\* a variant of IsUpper that only compares the name with its upper() form
IsUpperByComparison(name) == Upper(name) = name

\* str.isupper(): no lowercase character and at least one uppercase one
IsUpper(name) ==
    /\ \A i \in DOMAIN name : ~IsLowerChar(name[i])
    /\ \E i \in DOMAIN name : IsUpperChar(name[i])

TEST_PARAMS == <<"T","E","S","T","_","P","A","R","A","M","S">>

(***************************************************************************)
(* Values.                                                                 *)
(***************************************************************************)
NoneV == [k |-> "none"]

IntV(n) == [k |-> "int", n |-> n]

StrV(toks) == [k |-> "str", s |-> toks]

ListV(items) == [k |-> "list", l |-> items]

DictV(pairs) == [k |-> "dict", d |-> pairs]

Pair(key, val) == [key |-> key, val |-> val]

Lit(c) == [t |-> "lit", c |-> c]

Ph(base, acc) == [t |-> "ph", base |-> base, acc |-> acc]

Idx(i) == [a |-> "idx", i |-> i]

Key(key) == [a |-> "key", key |-> key]

Lits(chars) == [i \in DOMAIN chars |-> Lit(chars[i])]

\* the outcome of a call: the value returned, or the exception raised
Ok(v) == [exc |-> "none", v |-> v]

Exc(e, v) == [exc |-> e, v |-> v]

Keys(d) == {d[i].key : i \in DOMAIN d}

HasKey(d, key) == key \in Keys(d)

Lookup(d, key) == d[CHOOSE i \in DOMAIN d : d[i].key = key].val

\* d[key] = val of a dict: an existing key keeps its position
PutKey(d, key, val) ==
    IF HasKey(d, key)
    THEN [i \in DOMAIN d |-> IF d[i].key = key THEN Pair(key, val) ELSE d[i]]
    ELSE Append(d, Pair(key, val))

(***************************************************************************)
(* Text: str() and repr() of a value, as the token sequence of the text.   *)
(***************************************************************************)
RECURSIVE Digits(_)
\* the decimal digits of a natural number
Digits(n) ==
    IF n < 10 THEN <<DigitChars[n + 1]>>
    ELSE Digits(n \div 10) \o <<DigitChars[(n % 10) + 1]>>

AccText(a) ==
    IF a.a = "idx" THEN <<"[">> \o Digits(a.i) \o <<"]">>
    ELSE <<"[", "'">> \o a.key \o <<"'", "]">>

RECURSIVE AccsText(_)
AccsText(acc) ==
    IF acc = <<>> THEN <<>> ELSE AccText(Head(acc)) \o AccsText(Tail(acc))

\* the characters of one placeholder occurrence
PhText(ph) ==
    <<"#","P","A","R","A","M","(">> \o ph.base \o AccsText(ph.acc) \o <<")">>

TokChars(tok) == IF tok.t = "lit" THEN <<tok.c>> ELSE PhText(tok)

RECURSIVE Chars(_)
\* the characters of a string value
Chars(toks) ==
    IF toks = <<>> THEN <<>> ELSE TokChars(Head(toks)) \o Chars(Tail(toks))

RECURSIVE EscChars(_, _)
\* repr's escaping: the backslash, and the quote character q in use
EscChars(chars, q) ==
    IF chars = <<>> THEN <<>>
    ELSE (IF Head(chars) = "\\" \/ Head(chars) = q
          THEN <<"\\", Head(chars)>> ELSE <<Head(chars)>>)
         \o EscChars(Tail(chars), q)

RECURSIVE EscToks(_, _)
\* a placeholder occurrence that needs no escaping stays one occurrence
EscToks(toks, q) ==
    IF toks = <<>> THEN <<>>
    ELSE LET cs == TokChars(Head(toks))
         IN  (IF \E i \in DOMAIN cs : cs[i] = "\\" \/ cs[i] = q
              THEN Lits(EscChars(cs, q)) ELSE <<Head(toks)>>)
             \o EscToks(Tail(toks), q)

\* repr() of a string: double quotes when it holds a single quote and no
\* double quote, single quotes (escaped inside) otherwise
ReprStr(toks) ==
    LET cs == Range(Chars(toks))
    IN  IF "'" \in cs /\ "\"" \notin cs
        THEN <<Lit("\"")>> \o EscToks(toks, "none") \o <<Lit("\"")>>
        ELSE <<Lit("'")>> \o EscToks(toks, "'") \o <<Lit("'")>>

RECURSIVE Str(_), Repr(_), ReprItems(_), ReprPairs(_)
\* str() of a value
Str(v) ==
    CASE v.k = "str"  -> v.s
      [] v.k = "int"  -> Lits(Digits(v.n))
      [] v.k = "none" -> Lits(<<"N","o","n","e">>)
      [] v.k = "list" -> <<Lit("[")>> \o ReprItems(v.l) \o <<Lit("]")>>
      [] v.k = "dict" -> <<Lit("{")>> \o ReprPairs(v.d) \o <<Lit("}")>>

Repr(v) == IF v.k = "str" THEN ReprStr(v.s) ELSE Str(v)

ReprItems(items) ==
    IF items = <<>> THEN <<>>
    ELSE Repr(Head(items))
         \o (IF Tail(items) = <<>> THEN <<>> ELSE Lits(<<",", " ">>))
         \o ReprItems(Tail(items))

ReprPairs(d) ==
    IF d = <<>> THEN <<>>
    ELSE ReprStr(Lits(Head(d).key)) \o Lits(<<":", " ">>) \o Repr(Head(d).val)
         \o (IF Tail(d) = <<>> THEN <<>> ELSE Lits(<<",", " ">>))
         \o ReprPairs(Tail(d))

(***************************************************************************)
(* Subscripting: value[accessor], with the exception Python raises.        *)
(***************************************************************************)
Subscript(v, a) ==
    CASE v.k = "dict" ->
           IF a.a = "key" /\ HasKey(v.d, a.key)
           THEN Ok(Lookup(v.d, a.key)) ELSE Exc("KeyError", NoneV)
      [] v.k = "list" ->
           IF a.a = "key" THEN Exc("TypeError", NoneV)
           ELSE IF a.i < Len(v.l) THEN Ok(v.l[a.i + 1])
           ELSE Exc("IndexError", NoneV)
      [] v.k = "str" ->
           IF a.a = "key" THEN Exc("TypeError", NoneV)
           ELSE IF a.i < Len(Chars(v.s)) THEN Ok(StrV(<<Lit(Chars(v.s)[a.i + 1])>>))
           ELSE Exc("IndexError", NoneV)
      [] OTHER -> Exc("TypeError", NoneV)

RECURSIVE Access(_, _)
\* the accessors of a placeholder applied from left to right
Access(v, acc) ==
    IF acc = <<>> THEN Ok(v)
    ELSE LET r == Subscript(v, Head(acc))
         IN  IF r.exc = "none" THEN Access(r.v, Tail(acc)) ELSE r

(***************************************************************************)
(* The macro resolver: Settings._eval_param and Settings.getValue.         *)
(***************************************************************************)
\* the pattern #PARAM\((([\w\-]+)(\[[\w\[\]\-\'\"]+\])*)\) matches an
\* occurrence whose base name is a non-empty run of \w and '-' characters
RegexMatches(tok) ==
    /\ tok.t = "ph"
    /\ Len(tok.base) > 0
    /\ \A i \in DOMAIN tok.base : IsWordChar(tok.base[i]) \/ tok.base[i] = "-"

\* re.findall: the matching occurrences, in order, with repetitions
FindAll(toks) == SelectSeq(toks, RegexMatches)

RECURSIVE Replace(_, _, _)
\* str.replace: every occurrence of the macro's text becomes the new text
Replace(toks, macro, new) ==
    IF toks = <<>> THEN <<>>
    ELSE (IF Head(toks) = macro THEN new ELSE <<Head(toks)>>)
         \o Replace(Tail(toks), macro, new)

\* a variant of the handler that catches IndexError only
SwallowedIndexOnly == {"IndexError"}

\* the exceptions the loop over the macros swallows
Swallowed == {"IndexError", "AttributeError"}

RECURSIVE GetValueAt(_, _, _), EvalParamAt(_, _, _), EvalMacros(_, _, _, _),
          EvalItems(_, _, _), EvalPairs(_, _, _)

\* str(eval("self.getValue('<base>')<accessors>")); depth counts the nested
\* getValue calls left before the interpreter's recursion limit is hit
EvalMacro(st, macro, depth) ==
    IF depth = 0 THEN Exc("RecursionError", NoneV)
    ELSE LET g == GetValueAt(st, macro.base, depth - 1)
         IN  IF g.exc # "none" THEN g
             ELSE LET r == Access(g.v, macro.acc)
                  IN  IF r.exc # "none" THEN r ELSE Ok(StrV(Str(r.v)))

EvalMacros(st, toks, macros, depth) ==
    IF macros = <<>> THEN Ok(StrV(toks))
    ELSE LET r == EvalMacro(st, Head(macros), depth)
         IN  IF r.exc = "none"
             THEN EvalMacros(st, Replace(toks, Head(macros), r.v.s), Tail(macros), depth)
             ELSE IF r.exc \in Swallowed
             THEN EvalMacros(st, toks, Tail(macros), depth)
             ELSE r

EvalItems(st, items, depth) ==
    IF items = <<>> THEN Ok(ListV(<<>>))
    ELSE LET h == EvalParamAt(st, Head(items), depth)
         IN  IF h.exc # "none" THEN h
             ELSE LET t == EvalItems(st, Tail(items), depth)
                  IN  IF t.exc # "none" THEN t ELSE Ok(ListV(<<h.v>> \o t.v.l))

EvalPairs(st, d, depth) ==
    IF d = <<>> THEN Ok(DictV(<<>>))
    ELSE LET h == EvalParamAt(st, Head(d).val, depth)
         IN  IF h.exc # "none" THEN h
             ELSE LET t == EvalPairs(st, Tail(d), depth)
                  IN  IF t.exc # "none" THEN t
                      ELSE Ok(DictV(<<Pair(Head(d).key, h.v)>> \o t.v.d))

\* a variant of _eval_param without the branch for dict
EvalParamSkippingDict(st, param, depth) ==
    CASE param.k = "str"  -> EvalMacros(st, param.s, FindAll(param.s), depth)
      [] param.k = "list" -> EvalItems(st, param.l, depth)
      [] OTHER            -> Ok(param)

\* Settings._eval_param
EvalParamAt(st, param, depth) ==
    CASE param.k = "str"  -> EvalMacros(st, param.s, FindAll(param.s), depth)
      [] param.k = "list" -> EvalItems(st, param.l, depth)
      [] param.k = "dict" -> EvalPairs(st, param.d, depth)
      [] OTHER            -> Ok(param)

\* Settings.getValue
GetValueAt(st, attr, depth) ==
    IF attr \in DOMAIN st
    THEN IF attr = TEST_PARAMS THEN Ok(st[attr])
         ELSE EvalParamAt(st, st[attr], depth)
    ELSE Exc("AttributeError", NoneV)

\* a chain of distinct settings is at most as long as the store, so a
\* deeper nest of getValue calls is an unbounded one
RecursionLimit(st) == Cardinality(DOMAIN st)

\* a variant of getValue that looks the name up in upper case
getValueNormalising(st, attr) == GetValueAt(st, Upper(attr), RecursionLimit(st))

getValue(st, attr) == GetValueAt(st, attr, RecursionLimit(st))

(***************************************************************************)
(* merge_spec.  The Python operators it applies to its two arguments, each *)
(* with the exception it raises on an argument of the wrong type.  An item *)
(* (a key, a character, an element) is passed as a value.                  *)
(***************************************************************************)
AsStr(key) == StrV(Lits(key))

IsSubSeq(a, b) ==
    \E i \in 0..(Len(b) - Len(a)) : SubSeq(b, i + 1, i + Len(a)) = a

\* Python == between an element and an item: strings compare by their text
PyEq(a, b) ==
    IF a.k = "str" /\ b.k = "str" THEN Chars(a.s) = Chars(b.s) ELSE a = b

Hashable(item) == item.k \notin {"list", "dict"}

\* for key in c
Iter(c) ==
    CASE c.k = "dict" -> [exc |-> "none", items |-> [i \in DOMAIN c.d |-> AsStr(c.d[i].key)]]
      [] c.k = "str"  -> LET cs == Chars(c.s)
                         IN  [exc |-> "none", items |-> [i \in DOMAIN cs |-> AsStr(<<cs[i]>>)]]
      [] c.k = "list" -> [exc |-> "none", items |-> c.l]
      [] OTHER        -> [exc |-> "TypeError", items |-> <<>>]

\* item in c
Contains(c, item) ==
    CASE c.k = "dict" ->
           IF ~Hashable(item) THEN [exc |-> "TypeError", b |-> FALSE]
           ELSE [exc |-> "none", b |-> item.k = "str" /\ HasKey(c.d, Chars(item.s))]
      [] c.k = "str" ->
           IF item.k # "str" THEN [exc |-> "TypeError", b |-> FALSE]
           ELSE [exc |-> "none", b |-> IsSubSeq(Chars(item.s), Chars(c.s))]
      [] c.k = "list" ->
           [exc |-> "none", b |-> \E i \in DOMAIN c.l : PyEq(c.l[i], item)]
      [] OTHER -> [exc |-> "TypeError", b |-> FALSE]

\* c[item]
GetItem(c, item) ==
    CASE c.k = "dict" ->
           IF ~Hashable(item) THEN Exc("TypeError", NoneV)
           ELSE IF item.k = "str" /\ HasKey(c.d, Chars(item.s))
           THEN Ok(Lookup(c.d, Chars(item.s)))
           ELSE Exc("KeyError", NoneV)
      [] c.k \in {"list", "str"} ->
           IF item.k = "int" THEN Subscript(c, Idx(item.n)) ELSE Exc("TypeError", NoneV)
      [] OTHER -> Exc("TypeError", NoneV)

\* c[item] = val; the v of the outcome is c after the statement.  A dict of
\* the model has string keys only: an integer key is outside the model, and
\* no input of a specification leads here with one.
SetItem(c, item, val) ==
    CASE c.k = "dict" ->
           IF ~Hashable(item) THEN Exc("TypeError", c)
           ELSE IF item.k = "str" THEN Ok(DictV(PutKey(c.d, Chars(item.s), val)))
           ELSE Exc("IntKey", c)
      [] c.k = "list" ->
           IF item.k # "int" THEN Exc("TypeError", c)
           ELSE IF item.n < Len(c.l) THEN Ok(ListV([c.l EXCEPT ![item.n + 1] = val]))
           ELSE Exc("IndexError", c)
      [] OTHER -> Exc("TypeError", c)

RECURSIVE merge_spec(_, _), MergeOrigLoop(_, _, _), MergeNewLoop(_, _, _)

\* the first loop: for key in orig.  An object mutated by a nested call
\* stays mutated when that call raises.
MergeOrigLoop(orig, new, items) ==
    IF items = <<>> THEN Ok(orig)
    ELSE LET key == Head(items)
             c   == Contains(new, key)
             cur == GetItem(orig, key)
             nv  == GetItem(new, key)
         IN  IF c.exc # "none" THEN Exc(c.exc, orig)
             ELSE IF ~c.b THEN MergeOrigLoop(orig, new, Tail(items))
             ELSE IF cur.exc # "none" THEN Exc(cur.exc, orig)
             ELSE IF nv.exc # "none" THEN Exc(nv.exc, orig)
             ELSE IF cur.v.k = "dict"
             THEN LET m == merge_spec(cur.v, nv.v)
                      o == SetItem(orig, key, m.v).v
                  IN  IF m.exc # "none" THEN Exc(m.exc, o)
                      ELSE MergeOrigLoop(o, new, Tail(items))
             ELSE LET w == SetItem(orig, key, nv.v)
                  IN  IF w.exc # "none" THEN w
                      ELSE MergeOrigLoop(w.v, new, Tail(items))

\* the second loop: for key in new
MergeNewLoop(orig, new, items) ==
    IF items = <<>> THEN Ok(orig)
    ELSE LET key == Head(items)
             c   == Contains(orig, key)
             nv  == GetItem(new, key)
         IN  IF c.exc # "none" THEN Exc(c.exc, orig)
             ELSE IF c.b THEN MergeNewLoop(orig, new, Tail(items))
             ELSE IF nv.exc # "none" THEN Exc(nv.exc, orig)
             ELSE LET w == SetItem(orig, key, nv.v)
                  IN  IF w.exc # "none" THEN w
                      ELSE MergeNewLoop(w.v, new, Tail(items))

\* merge_spec(orig, new): the outcome's v is orig as the call leaves it
merge_spec(orig, new) ==
    LET i1 == Iter(orig)
        r1 == MergeOrigLoop(orig, new, i1.items)
        i2 == Iter(new)
    IN  IF i1.exc # "none" THEN Exc(i1.exc, orig)
        ELSE IF r1.exc # "none" THEN r1
        ELSE IF i2.exc # "none" THEN Exc(i2.exc, r1.v)
        ELSE MergeNewLoop(r1.v, new, i2.items)

(***************************************************************************)
(* The attribute store: the instance's __dict__, a function from the names *)
(* held to their raw values.                                               *)
(***************************************************************************)
EmptyStore == [n \in {} |-> NoneV]

\* object.__setattr__(self, name, value)
ObjSetAttr(st, name, value) ==
    [n \in DOMAIN st \cup {name} |-> IF n = name THEN value ELSE st[n]]

\* a variant of __setattr__ without the filter on the name
setattrUnfiltered(st, name, value) == ObjSetAttr(st, name, value)

\* Settings.__setattr__
setattr(st, name, value) ==
    IF ~IsUpper(name) THEN st ELSE ObjSetAttr(st, name, value)

\* Settings.setValue (the name is always a string here)
setValue(st, name, value) ==
    IF value # NoneV THEN ObjSetAttr(st, name, value) ELSE st

RECURSIVE LoadPairs(_, _)
\* the loop of load_from_dict over the entries of conf; st is the store as
\* the call leaves it, also when it raises
LoadPairs(st, pairs) ==
    IF pairs = <<>> THEN [exc |-> "none", st |-> st]
    ELSE LET key == Upper(Head(pairs).key)
             val == Head(pairs).val
         IN  IF val = NoneV THEN LoadPairs(st, Tail(pairs))
             ELSE IF val.k = "dict"
             THEN IF key \notin DOMAIN st
                  THEN [exc |-> "AttributeError", st |-> st]
                  ELSE LET m  == merge_spec(st[key], val)
                           s1 == [st EXCEPT ![key] = m.v]
                       IN  IF m.exc # "none" THEN [exc |-> m.exc, st |-> s1]
                           ELSE LoadPairs(setattr(s1, key, m.v), Tail(pairs))
             ELSE LoadPairs(setattr(st, key, val), Tail(pairs))

\* Settings.load_from_dict
load_from_dict(st, conf) == LoadPairs(st, conf.d)

RECURSIVE RestorePairs(_, _)
RestorePairs(st, pairs) ==
    IF pairs = <<>> THEN st
    ELSE RestorePairs(setValue(st, Head(pairs).key, Head(pairs).val), Tail(pairs))

\* a variant of restore_from_dict without the __dict__.clear()
restoreWithoutClear(st, conf) == RestorePairs(st, conf.d)

\* Settings.restore_from_dict: __dict__.clear(), then setValue per entry of
\* the deep copy
restore_from_dict(st, conf) == RestorePairs(EmptyStore, conf.d)

RECURSIVE EnvPairs(_, _)
EnvPairs(st, pairs) ==
    IF pairs = <<>> THEN st
    ELSE EnvPairs(setattr(st, Head(pairs).key, Head(pairs).val), Tail(pairs))

\* Settings.load_from_env, environ being the process environment
load_from_env(st, environ) == EnvPairs(st, environ.d)

(***************************************************************************)
(* Operations.  last records the latest call: the operation, its arguments *)
(* and its outcome (the value returned or the exception raised).           *)
(***************************************************************************)
NoName == <<>>

Call(op, name, arg, arg2, ret) ==
    [op |-> op, name |-> name, arg |-> arg, arg2 |-> arg2, ret |-> ret]

Init ==
    /\ store = EmptyStore
    /\ last = Call("init", NoName, NoneV, NoneV, Ok(NoneV))

\* settings.<name> = value, setattr(settings, name, value)
SetAttr(name, value) ==
    /\ store' = setattr(store, name, value)
    /\ last' = Call("setattr", name, value, NoneV, Ok(NoneV))

SetValue(name, value) ==
    /\ store' = setValue(store, name, value)
    /\ last' = Call("setValue", name, value, NoneV, Ok(NoneV))

Get(name) ==
    /\ store' = store
    /\ last' = Call("getValue", name, NoneV, NoneV, getValue(store, name))

LoadFromDict(conf) ==
    LET r == load_from_dict(store, conf)
    IN  /\ store' = r.st
        /\ last' = Call("load_from_dict", NoName, conf, NoneV, Exc(r.exc, NoneV))

RestoreFromDict(conf) ==
    /\ store' = restore_from_dict(store, conf)
    /\ last' = Call("restore_from_dict", NoName, conf, NoneV, Ok(NoneV))

LoadFromEnv(environ) ==
    /\ store' = load_from_env(store, environ)
    /\ last' = Call("load_from_env", NoName, environ, NoneV, Ok(NoneV))

\* a direct call merge_spec(orig, new)
MergeCall(orig, new) ==
    /\ store' = store
    /\ last' = Call("merge_spec", NoName, orig, new, merge_spec(orig, new))

(***************************************************************************)
(* Spec: the store driven with names of every shape.                       *)
(***************************************************************************)
nA == <<"A">>

nB == <<"B">>

nC == <<"C">>

kx == <<"x">>

ky == <<"y">>

Ints == {IntV(i) : i \in 1..MaxInt}

\* uppercase, lowercase, with a hyphen, without any letter
NameInputs == {nA, <<"a">>, <<"A", "-", "B">>, <<"_">>}

\* "#PARAM(A)"
RefA == StrV(<<Ph(nA, <<>>)>>)

ValueInputs == Ints \cup {NoneV, RefA}

ConfInputs ==
    {DictV(<<Pair(n, v)>>) : n \in NameInputs, v \in ValueInputs}
    \cup {DictV(<<Pair(n, NoneV), Pair(nA, v)>>) : n \in NameInputs \ {nA}, v \in Ints}

\* the values of environment variables are strings
EnvInputs == {DictV(<<Pair(n, RefA)>>) : n \in NameInputs}

Next ==
    \/ \E n \in NameInputs, v \in ValueInputs : SetAttr(n, v)
    \/ \E n \in NameInputs, v \in ValueInputs : SetValue(n, v)
    \/ \E n \in NameInputs : Get(n)
    \/ \E c \in ConfInputs : LoadFromDict(c)
    \/ \E c \in ConfInputs : RestoreFromDict(c)
    \/ \E e \in EnvInputs : LoadFromEnv(e)

Spec == Init /\ [][Next]_vars

(***************************************************************************)
(* What the resolver is expected to return, stated independently of its    *)
(* loop: every placeholder that resolves is replaced by the text of what   *)
(* it refers to, every other one stays in place.                           *)
(***************************************************************************)
RECURSIVE PhsOf(_)
\* the placeholder occurrences of a value, at any depth
PhsOf(v) ==
    CASE v.k = "str"  -> {v.s[i] : i \in {j \in DOMAIN v.s : v.s[j].t = "ph"}}
      [] v.k = "list" -> UNION {PhsOf(v.l[i]) : i \in DOMAIN v.l}
      [] v.k = "dict" -> UNION {PhsOf(v.d[i].val) : i \in DOMAIN v.d}
      [] OTHER        -> {}

NoPh(v) == PhsOf(v) = {}

\* how the reference of a placeholder ends: "none" when it resolves, the
\* exception otherwise ("AttributeError": the base name is not held)
PhOutcome(st, ph) ==
    LET g == getValue(st, ph.base)
    IN  IF g.exc # "none" THEN g.exc ELSE Access(g.v, ph.acc).exc

PhText2(st, ph) == Str(Access(getValue(st, ph.base).v, ph.acc).v)

RECURSIVE SubstToks(_, _)
SubstToks(st, toks) ==
    IF toks = <<>> THEN <<>>
    ELSE (IF Head(toks).t = "ph" /\ PhOutcome(st, Head(toks)) = "none"
          THEN PhText2(st, Head(toks)) ELSE <<Head(toks)>>)
         \o SubstToks(st, Tail(toks))

RECURSIVE Resolved(_, _)
Resolved(st, v) ==
    CASE v.k = "str"  -> StrV(SubstToks(st, v.s))
      [] v.k = "list" -> ListV([i \in DOMAIN v.l |-> Resolved(st, v.l[i])])
      [] v.k = "dict" -> DictV([i \in DOMAIN v.d |->
                                  Pair(v.d[i].key, Resolved(st, v.d[i].val))])
      [] OTHER        -> v

Normalised(name) == Upper(name) = name

(***************************************************************************)
(* Claims checked under Spec.                                              *)
(***************************************************************************)
\* C3, as claimed: getValue normalises the name before the lookup: it raises
\* AttributeError exactly when the uppercase form of the name is not held,
\* and otherwise returns what getValue of the uppercase name returns.
C3_GetNormalisesName ==
    last.op = "getValue" =>
        /\ (last.ret.exc = "AttributeError") <=> (Upper(last.name) \notin DOMAIN store)
        /\ Upper(last.name) \in DOMAIN store =>
               last.ret = getValue(store, Upper(last.name))

\* C3, amended: getValue looks the name up exactly as given: it raises
\* AttributeError exactly when that name is not held (also when a
\* case variant of it is), returns a value without placeholders
\* unchanged, and returns the value with its placeholders replaced when
\* all of them resolve (TEST_PARAMS is returned as stored).
C3_GetLooksUpNameAsGiven ==
    last.op = "getValue" =>
        /\ (last.ret.exc = "AttributeError") <=> (last.name \notin DOMAIN store)
        /\ last.name \in DOMAIN store /\ NoPh(store[last.name]) =>
               last.ret = Ok(store[last.name])
        /\ /\ last.name \in DOMAIN store
           /\ \A ph \in PhsOf(store[last.name]) : PhOutcome(store, ph) = "none"
           => last.ret = Ok(IF last.name = TEST_PARAMS THEN store[last.name]
                            ELSE Resolved(store, store[last.name]))

\* C3, witness: a get of a lowercase name whose uppercase form is held, and
\* a get that resolved a placeholder
C3_Witness ==
    /\ last.op = "getValue"
    /\ last.name \notin DOMAIN store
    /\ Upper(last.name) \in DOMAIN store
    /\ \E n \in DOMAIN store : ~NoPh(store[n]) /\ getValue(store, n).exc = "none"

HasLower(name) == \E i \in DOMAIN name : IsLowerChar(name[i])

HasUpperLetter(name) == \E i \in DOMAIN name : IsUpperChar(name[i])

\* the characters of an identifier: letters, digits, underscore
IdentifierShaped(name) == \A i \in DOMAIN name : IsWordChar(name[i])

\* C4, as claimed: a set with a name that contains a lowercase letter or a
\* character that is not valid in an identifier leaves the store unchanged.
C4_NonIdentifierDropped ==
    [][(last'.op = "setattr" /\ (HasLower(last'.name) \/ ~IdentifierShaped(last'.name)))
          => store' = store]_vars

\* C4, amended: a set with a name that contains a lowercase letter, or no
\* uppercase letter at all, raises nothing and leaves the store unchanged;
\* a set with any other name, a hyphen in it or not, stores the value under
\* that name and changes nothing else.
C4_NotUpperDropped ==
    [][last'.op = "setattr" =>
          /\ last'.ret = Ok(NoneV)
          /\ (HasLower(last'.name) \/ ~HasUpperLetter(last'.name)) => store' = store
          /\ ~(HasLower(last'.name) \/ ~HasUpperLetter(last'.name)) =>
                 /\ DOMAIN store' = DOMAIN store \cup {last'.name}
                 /\ store'[last'.name] = last'.arg
                 /\ \A n \in DOMAIN store \ {last'.name} : store'[n] = store[n]]_vars

\* C4, witness: a set with a lowercase name and one with a name without
\* letters happened on a store that holds a hyphenated name
C4_Witness ==
    /\ last.op = "setattr"
    /\ ~HasUpperLetter(last.name)
    /\ \E n \in DOMAIN store : ~IdentifierShaped(n)

AllHeldNormalised(st) ==
    /\ \A n \in DOMAIN st : Normalised(n)
    /\ \A n, m \in DOMAIN st : Upper(n) = Upper(m) => n = m

\* C9, as claimed: whatever names set, setValue, load_from_dict,
\* load_from_env and restore are called with, every name held is uppercase
\* and no two names held differ only by case.
C9_KeysAlwaysNormalised == AllHeldNormalised(store)

GivenNormalised(call) ==
    /\ call.op = "setValue" => Normalised(call.name)
    /\ call.op = "restore_from_dict" => \A key \in Keys(call.arg.d) : Normalised(key)

\* C9, amended: set, load_from_dict and load_from_env keep the names held
\* uppercase whatever names they are given; setValue and restore store a
\* name as given, so they keep them uppercase when given uppercase names.
\* From the empty store: while setValue and restore are given uppercase
\* names only, every name held is uppercase and no two differ only by case.
C9_NormalisedUnlessStoredRaw ==
    [][(AllHeldNormalised(store) /\ GivenNormalised(last')) => AllHeldNormalised(store')]_vars

\* C9, witness: load_from_dict was given a lowercase key and the store holds
\* its uppercase form
C9_Witness ==
    /\ last.op = "load_from_dict"
    /\ \E key \in Keys(last.arg.d) : ~Normalised(key) /\ Upper(key) \in DOMAIN store
    /\ AllHeldNormalised(store)

(***************************************************************************)
(* SpecResolve: the resolver driven with placeholder-bearing values.       *)
(* Placeholders refer to B, to TEST_PARAMS and to C, which is never set.   *)
(***************************************************************************)
kk == <<"k">>

kj == <<"j">>

LitX == StrV(<<Lit("x")>>)

ResolveNames == {nA, nB, TEST_PARAMS}

ResolveValues ==
    Ints \cup
    { NoneV,
      LitX,
      StrV(<<Lit("x"), Ph(nB, <<>>)>>),
      StrV(<<Ph(nC, <<>>), Ph(nB, <<>>)>>),
      StrV(<<Ph(nB, <<Key(kk)>>)>>),
      StrV(<<Ph(TEST_PARAMS, <<Key(kk)>>)>>),
      ListV(<<LitX>>),
      ListV(<<StrV(<<Ph(nB, <<Idx(MaxIdx)>>)>>), StrV(<<Ph(nB, <<>>)>>)>>),
      DictV(<<Pair(kk, LitX)>>),
      DictV(<<Pair(kj, LitX)>>),
      DictV(<<Pair(kk, StrV(<<Ph(nB, <<>>)>>))>>) }
    \cup {StrV(<<Ph(nB, <<Idx(i)>>), Lit("y")>>) : i \in 0..MaxIdx}

RECURSIVE DumpPairs(_, _)
DumpPairs(st, names) ==
    IF names = <<>> THEN <<>>
    ELSE (IF Head(names) \in DOMAIN st
          THEN <<Pair(Head(names), st[Head(names)])>> ELSE <<>>)
         \o DumpPairs(st, Tail(names))

\* a snapshot of the store: a copy of its __dict__
Dump(st) == DictV(DumpPairs(st, <<nA, nB, TEST_PARAMS>>))

SnapshotInputs(st) ==
    {Dump(st)} \cup {DictV(<<Pair(nA, NoneV), Pair(nB, v)>>) : v \in Ints}

NextResolve ==
    \/ \E n \in ResolveNames, v \in ResolveValues : SetAttr(n, v)
    \/ \E n \in ResolveNames \cup {nC} : Get(n)
    \/ \E c \in SnapshotInputs(store) : RestoreFromDict(c)

SpecResolve == Init /\ [][NextResolve]_vars

\* the text of the value is a string whose placeholders are all of the
\* form #PARAM(<name>)
RefersPlainly(v) ==
    v.k = "str" /\ PhsOf(v) # {} /\ \A ph \in PhsOf(v) : ph.acc = <<>>

\* every setting the value refers to and that is set has a resolved value
RefsHaveValue(st, v) ==
    \A ph \in PhsOf(v) : ph.base \in DOMAIN st => getValue(st, ph.base).exc = "none"

\* C1, as claimed: for any settings A and B, A's text holding #PARAM(B):
\* whenever A is read, the result is A's text with the placeholder intact
\* if B is not set, and with the placeholder replaced by the text of B's
\* resolved value as B is set at that moment (no caching); nothing is
\* raised.
C1_LazyForwardReference ==
    /\ last.op = "getValue"
    /\ last.name \in DOMAIN store
    /\ RefersPlainly(store[last.name])
    /\ RefsHaveValue(store, store[last.name])
    => last.ret = Ok(Resolved(store, store[last.name]))

\* C1, amended: the same for every setting A other than TEST_PARAMS, which
\* is returned as stored, its placeholders never replaced.
C1_LazyForwardReferenceButTestParams ==
    /\ last.op = "getValue"
    /\ last.name \in DOMAIN store
    /\ RefersPlainly(store[last.name])
    /\ RefsHaveValue(store, store[last.name])
    => last.ret = Ok(IF last.name = TEST_PARAMS THEN store[last.name]
                     ELSE Resolved(store, store[last.name]))

\* C1, witness: A was read while B is set, and B's text stands where the
\* placeholder was; the placeholder to the unset C is intact
C1_Witness ==
    /\ last.op = "getValue"
    /\ last.name = nA
    /\ nA \in DOMAIN store
    /\ RefersPlainly(store[nA])
    /\ last.ret.exc = "none"
    /\ Ph(nB, <<>>) \in PhsOf(store[nA]) \ PhsOf(last.ret.v)
    /\ Ph(nC, <<>>) \in PhsOf(store[nA]) \cap PhsOf(last.ret.v)

\* the reference fails in one of the three ways of the claim, or resolves
Tolerated(st, ph) ==
    \/ ph.base \notin DOMAIN st
    \/ /\ getValue(st, ph.base).exc = "none"
       /\ Access(getValue(st, ph.base).v, ph.acc).exc \in {"none", "IndexError", "KeyError"}

\* C2, as claimed: when every placeholder of a setting resolves or fails by
\* an unknown base name, an index out of range or a key absent from the
\* mapping referred to, get returns normally, the failing placeholders left
\* in place and every other one replaced, in strings and in the elements of
\* sequences and mappings.
C2_ResolutionFailuresNeverRaised ==
    /\ last.op = "getValue"
    /\ last.name \in DOMAIN store
    /\ last.name # TEST_PARAMS
    /\ \A ph \in PhsOf(store[last.name]) : Tolerated(store, ph)
    => last.ret = Ok(Resolved(store, store[last.name]))

\* the names a setting refers to, directly or through other settings
Refs(st, n) == {ph.base : ph \in PhsOf(st[n])}

RECURSIVE Reach(_, _, _)
Reach(st, names, k) ==
    IF k = 0 THEN names
    ELSE Reach(st, names \cup UNION {Refs(st, m) : m \in names \cap DOMAIN st}, k - 1)

\* no dangling placeholder: every setting n refers to, directly or not, is held
NoDangling(st, n) == Reach(st, {n}, Cardinality(DOMAIN st)) \subseteq DOMAIN st

\* the store a snapshot was copied from
SnapshotSource(conf) == [n \in Keys(conf.d) |-> Lookup(conf.d, n)]

\* C8: after restore(snapshot) the names held are exactly the snapshot's
\* names with a non-null value, each under its raw snapshot value (nothing
\* held before survives otherwise, a null entry does not stop the entries
\* after it), and every restored name without dangling placeholder reads as
\* it did in the store the snapshot was copied from.
C8_RestoreReplacesStore ==
    last.op = "restore_from_dict" =>
        LET src == SnapshotSource(last.arg)
        IN  /\ last.ret = Ok(NoneV)
            /\ DOMAIN store = {n \in DOMAIN src : src[n] # NoneV}
            /\ \A n \in DOMAIN store : store[n] = src[n]
            /\ \A n \in DOMAIN store :
                   NoDangling(store, n) => getValue(store, n) = getValue(src, n)

\* C8, witness: a restore skipped a null entry, restored the entry after it
\* and left a setting that refers to another one and reads resolved
C8_Witness ==
    /\ last.op = "restore_from_dict"
    /\ Len(last.arg.d) >= 2
    /\ last.arg.d[1].val = NoneV
    /\ last.arg.d[1].key \notin DOMAIN store
    /\ last.arg.d[2].key \in DOMAIN store
    /\ \E n \in DOMAIN store :
           /\ ~NoPh(store[n])
           /\ NoDangling(store, n)
           /\ getValue(store, n).exc = "none"
           /\ NoPh(getValue(store, n).v)

\* the placeholder reference graph is acyclic, the references written in
\* TEST_PARAMS counted, and every placeholder of every setting resolves
WellFormed(st) ==
    /\ \A n \in DOMAIN st : n \notin Reach(st, Refs(st, n), Cardinality(DOMAIN st))
    /\ \A n \in DOMAIN st : \A ph \in PhsOf(st[n]) : PhOutcome(st, ph) = "none"

\* C10, as claimed: in a store whose placeholders all resolve, references
\* into TEST_PARAMS included, get of every name but TEST_PARAMS returns a
\* value without any placeholder.
C10_GetFullyResolved ==
    /\ last.op = "getValue"
    /\ last.name \in DOMAIN store \ {TEST_PARAMS}
    /\ WellFormed(store)
    => last.ret.exc = "none" /\ NoPh(last.ret.v)

\* no placeholder refers to a part of TEST_PARAMS that holds a placeholder
NoPlaceholderTakenFromTestParams(st) ==
    \A n \in DOMAIN st \ {TEST_PARAMS} : \A ph \in PhsOf(st[n]) :
        ph.base = TEST_PARAMS => NoPh(Access(st[TEST_PARAMS], ph.acc).v)

\* C10, amended: the same, provided no placeholder refers to a part of
\* TEST_PARAMS that itself holds a placeholder: what is taken from
\* TEST_PARAMS is inserted as stored.
C10_GetFullyResolvedButTestParams ==
    /\ last.op = "getValue"
    /\ last.name \in DOMAIN store \ {TEST_PARAMS}
    /\ WellFormed(store)
    /\ NoPlaceholderTakenFromTestParams(store)
    => last.ret.exc = "none" /\ NoPh(last.ret.v)

\* C10, witness: A was read, A refers to B, B refers into TEST_PARAMS,
\* which holds a mapping
C10_Witness ==
    /\ last.op = "getValue"
    /\ last.name = nA
    /\ {nA, nB, TEST_PARAMS} \subseteq DOMAIN store
    /\ WellFormed(store)
    /\ NoPlaceholderTakenFromTestParams(store)
    /\ nB \in Refs(store, nA)
    /\ TEST_PARAMS \in Refs(store, nB)
    /\ NoPh(last.ret.v)

(***************************************************************************)
(* SpecMerge: merge_spec called on mappings of one nested level, and the   *)
(* store loaded from dictionaries holding such mappings.                   *)
(***************************************************************************)
Leaves == Ints \cup {LitX}

\* {x: v}, {y: v}, {x: v, y: v}
InnerDicts ==
    {DictV(<<Pair(k, v)>>) : k \in {kx, ky}, v \in Leaves}
    \cup {DictV(<<Pair(kx, v), Pair(ky, v)>>) : v \in Leaves}

MergeInputs ==
    {DictV(<<Pair(kx, v)>>) : v \in Leaves \cup InnerDicts}
    \cup {DictV(<<Pair(ky, w)>>) : w \in Leaves}
    \cup {DictV(<<Pair(kx, DictV(<<Pair(kx, v)>>)), Pair(ky, w)>>) : v \in Leaves, w \in Leaves}

MergeNames == {nA, <<"a">>}

MergeValues == Leaves \cup {DictV(<<Pair(kx, v), Pair(ky, v)>>) : v \in Leaves}

MergeConfInputs ==
    {DictV(<<Pair(n, v)>>) : n \in MergeNames, v \in Leaves \cup InnerDicts \cup {NoneV}}
    \cup {DictV(<<Pair(nB, v), Pair(nA, LitX)>>) : v \in InnerDicts}

NextMerge ==
    \/ \E n \in MergeNames, v \in MergeValues : SetAttr(n, v)
    \/ \E c \in MergeConfInputs : LoadFromDict(c)
    \/ \E o \in MergeInputs, n \in MergeInputs : MergeCall(o, n)

SpecMerge == Init /\ [][NextMerge]_vars

RECURSIVE MergeKeeps(_, _, _)
\* res keeps every key of orig that new lacks with orig's value, holds every
\* key of new that orig lacks with new's value, and the same one level down
\* where both hold a mapping under the key
MergeKeeps(orig, new, res) ==
    /\ res.k = "dict"
    /\ \A k \in Keys(orig.d) \ Keys(new.d) :
           HasKey(res.d, k) /\ Lookup(res.d, k) = Lookup(orig.d, k)
    /\ \A k \in Keys(new.d) \ Keys(orig.d) :
           HasKey(res.d, k) /\ Lookup(res.d, k) = Lookup(new.d, k)
    /\ \A k \in Keys(orig.d) \cap Keys(new.d) :
           Lookup(orig.d, k).k = "dict" /\ Lookup(new.d, k).k = "dict"
           => HasKey(res.d, k)
              /\ MergeKeeps(Lookup(orig.d, k), Lookup(new.d, k), Lookup(res.d, k))

\* C5, as claimed: for all mappings original and incoming, merge returns a
\* mapping that keeps every key of original absent from incoming with the
\* value it had, at every level of the mappings merged recursively, and
\* that holds every key of incoming absent from original with incoming's
\* value.
C5_MergeNeverDeletesByOmission ==
    last.op = "merge_spec" /\ last.arg.k = "dict" /\ last.arg2.k = "dict"
    => last.ret.exc = "none" /\ MergeKeeps(last.arg, last.arg2, last.ret.v)

RECURSIVE DeepMerge(_, _)
\* the deep merge of two mappings: under a key of both, the merge of the two
\* values when both are mappings and the incoming value otherwise
DeepMerge(orig, new) ==
    LET both(k) == Lookup(orig.d, k).k = "dict" /\ Lookup(new.d, k).k = "dict"
        old == [i \in DOMAIN orig.d |->
                   LET k == orig.d[i].key
                   IN  IF ~HasKey(new.d, k) THEN orig.d[i]
                       ELSE IF both(k)
                       THEN Pair(k, DeepMerge(orig.d[i].val, Lookup(new.d, k)))
                       ELSE Pair(k, Lookup(new.d, k))]
        isNew(p) == ~HasKey(orig.d, p.key)
    IN  DictV(old \o SelectSeq(new.d, isNew))

RECURSIVE LoadedAsClaimed(_, _)
\* the store after the entries of a loaded mapping, entry by entry: a
\* mapping over a mapping held is merged into it, any other non-null value
\* replaces
LoadedAsClaimed(st, pairs) ==
    IF pairs = <<>> THEN st
    ELSE LET key == Upper(Head(pairs).key)
             val == Head(pairs).val
             now == IF val = NoneV THEN st
                    ELSE IF val.k = "dict" /\ key \in DOMAIN st /\ st[key].k = "dict"
                    THEN ObjSetAttr(st, key, DeepMerge(st[key], val))
                    ELSE ObjSetAttr(st, key, val)
         IN  LoadedAsClaimed(now, Tail(pairs))

\* C6, as claimed: load_from_dict succeeds and, for each entry with a
\* non-null value, the value stored under upper(key) becomes the deep merge
\* of the value held and the loaded value when both are mappings, and
\* exactly the loaded value in every other case, a mapping loaded for a key
\* not in the store or over a scalar included.
C6_LoadFromDictMergesOrReplaces ==
    [][last'.op = "load_from_dict"
       => /\ last'.ret.exc = "none"
          /\ store' = LoadedAsClaimed(store, last'.arg.d)]_vars

\* the conf supplies the one setting n, as a mapping of scalars
SuppliesMapping(conf, n) ==
    /\ Len(conf.d) = 1
    /\ Upper(conf.d[1].key) = n
    /\ conf.d[1].val.k = "dict"
    /\ \A k \in Keys(conf.d[1].val.d) : Lookup(conf.d[1].val.d, k).k # "dict"

\* C7, as claimed: after two loads in sequence, the first supplying a
\* setting as a nested mapping and the second the same setting with a
\* subset of its subkeys, the store holds for that setting the second
\* load's values for the subkeys it mentions and the first load's values
\* for every other subkey.
C7_SecondLoadKeepsSiblings ==
    [][\A n \in {Upper(m) : m \in MergeNames} :
           /\ last.op = "load_from_dict" /\ SuppliesMapping(last.arg, n)
           /\ last'.op = "load_from_dict" /\ SuppliesMapping(last'.arg, n)
           /\ Keys(last'.arg.d[1].val.d) \subseteq Keys(last.arg.d[1].val.d)
           => LET first  == last.arg.d[1].val.d
                  second == last'.arg.d[1].val.d
              IN  /\ n \in DOMAIN store'
                  /\ store'[n].k = "dict"
                  /\ \A k \in Keys(first) :
                         /\ HasKey(store'[n].d, k)
                         /\ Lookup(store'[n].d, k) =
                                IF HasKey(second, k) THEN Lookup(second, k)
                                ELSE Lookup(first, k)]_vars

====
